---- MODULE Spec2Model ----
(***************************************************************************)
(* Model of the OpenHarmony documentation harvester (src/main.py):          *)
(* _sanitize_filename, _extract_doc_ids_with_path, fetch_document and       *)
(* fetch_and_save_documents with the __main__ block that calls it.          *)
(*                                                                          *)
(* Python strings that the code inspects character by character (node       *)
(* names, derived paths) are sequences of one-character strings.  Opaque    *)
(* strings (document references, titles, HTML bodies) are TLA+ strings.     *)
(* A Python dict is a function whose DOMAIN is the set of keys present.     *)
(***************************************************************************)
EXTENDS Integers, Sequences, FiniteSets, TLC

VARIABLES
    filename,        \* _sanitize_filename: the argument of the first call
    sanitized,       \* _sanitize_filename: results of the successive calls
    pc,              \* position of the process in main.py
    category_file,   \* the category index on disk: [status, data]
    skip_existing,   \* parameter of fetch_and_save_documents
    save_markdown,   \* parameter of fetch_and_save_documents
    fs,              \* Markdown files on disk: file path -> content
    fs0,             \* the Markdown files as they were when the run started
    docs_dir,        \* whether the directory DOCS_DIR exists
    outputs,         \* aggregate output files written, in order
    category_data,   \* the parsed category tree
    docs,            \* the flattened task list
    existing_files,  \* set of task paths found on disk by the scan
    skipped_count,
    documents,       \* successfully fetched documents
    failed_count,
    saved_count,
    i,               \* loop index into docs (1-based, as enumerate(docs, 1))
    response,        \* fetch_document: what the remote service answered
    doc_info,        \* result of the current fetch_document call
    result,          \* return value of fetch_and_save_documents
    exit_code,       \* process exit status
    log,             \* history of the run: skips, fetch calls, writes, sleeps
    prev             \* the earlier runs of the script: whether the last one was
                     \* clean, whether one was terminated before its last task

sanVars == <<filename, sanitized>>
inVars == <<category_file, skip_existing, save_markdown, fs0, prev>>
loopVars == <<documents, failed_count, saved_count, i, response, doc_info>>
vars == <<filename, sanitized, pc, category_file, skip_existing, save_markdown,
          fs, fs0, docs_dir, outputs, category_data, docs, existing_files,
          skipped_count, documents, failed_count, saved_count, i, response,
          doc_info, result, exit_code, log, prev>>

----------------------------------------------------------------------------
(* Bounds of the model *)

\* longest file name given to _sanitize_filename in SpecSanitize
MaxNameLen == 3
\* largest number of nodes of a category tree in SpecTree
MaxNodes == 3
\* largest number of nodes of a category tree in Spec (the whole run)
MaxRunNodes == 2

----------------------------------------------------------------------------
(* Python values *)

\* Python's None where a string is expected
None == "\\None"

\* str(v) as an f-string renders it
Str(v) == IF v = None THEN "None" ELSE v

\* d.get(k, default)
Get(d, k, default) == IF k \in DOMAIN d THEN d[k] ELSE default

\* the empty dict {}
EmptyDict == <<>>

\* A value that is a Python list or None (a JSON array or null)
PyList(items) == [py |-> "list", items |-> items]
PyNone == [py |-> "None", items |-> <<>>]

\* bool(v) of such a value
Truthy(v) == v.py = "list" /\ v.items # <<>>

SeqSum(s, F(_)) ==
    LET RECURSIVE Sum(_)
        Sum(k) == IF k = 0 THEN 0 ELSE F(s[k]) + Sum(k - 1)
    IN Sum(Len(s))

\* number of entries of sequence s satisfying P
Count(s, P(_)) == SeqSum(s, LAMBDA e : IF P(e) THEN 1 ELSE 0)

----------------------------------------------------------------------------
(* _sanitize_filename *)

\* the character class [<>:"/\\|?*]
IllegalChars == {"<", ">", ":", "\"", "/", "\\", "|", "?", "*"}

\* characters matched by \s (and stripped by str.strip)
Whitespace == {" ", "\t", "\n"}

\* re.sub(r'[<>:"/\\|?*]', '', s)
RemoveIllegal(s) == SelectSeq(s, LAMBDA c : c \notin IllegalChars)

RECURSIVE LStrip(_)
LStrip(s) ==
    IF s # <<>> /\ Head(s) \in Whitespace THEN LStrip(Tail(s)) ELSE s

RECURSIVE RStrip(_)
RStrip(s) ==
    IF s # <<>> /\ s[Len(s)] \in Whitespace
    THEN RStrip(SubSeq(s, 1, Len(s) - 1))
    ELSE s

\* str.strip()
Strip(s) == RStrip(LStrip(s))

\* re.sub(r'\s+', '_', s): every maximal run of whitespace becomes one '_'
RECURSIVE CollapseWhitespace(_)
CollapseWhitespace(s) ==
    IF s = <<>> THEN <<>>
    ELSE IF Head(s) \in Whitespace
         THEN <<"_">> \o CollapseWhitespace(LStrip(Tail(s)))
         ELSE <<Head(s)>> \o CollapseWhitespace(Tail(s))

\* a sanitizer that lost its whitespace substitution
SanitizeNoCollapse(s) == Strip(RemoveIllegal(s))

_sanitize_filename(s) == Strip(CollapseWhitespace(RemoveIllegal(s)))

----------------------------------------------------------------------------
(* Category trees.  A node is a dict with nodeName, relateDocument, nodeId,  *)
(* isLeaf and children; a missing nodeName or relateDocument reads as ""     *)
(* (node.get(k, "")), so the empty value stands for both.  The nodeId of a   *)
(* node is its position in the tree: <<2, 1>> is the first child of the      *)
(* second root.                                                              *)

NodeLabels(names, refs) ==
    [nodeName : names, relateDocument : refs, isLeaf : BOOLEAN]

MkNode(l, c) ==
    [nodeName |-> l.nodeName, relateDocument |-> l.relateDocument,
     nodeId |-> <<>>, isLeaf |-> l.isLeaf, children |-> c]

\* The shape of a forest of n nodes, as the file lists it: the nesting depth
\* of each node in order of appearance; a node is at most one level deeper
\* than the node before it.
DepthSeqs(n) ==
    { d \in [1..n -> 0..(n - 1)] :
        /\ n > 0 => d[1] = 0
        /\ \A k \in 1..(n - 1) : d[k + 1] <= d[k] + 1 }

\* index of the first item after the first that is at depth lvl, or Len + 1
NextAt(depths, lvl) ==
    LET later == { j \in 2..Len(depths) : depths[j] = lvl }
    IN IF later = {} THEN Len(depths) + 1
       ELSE CHOOSE j \in later : \A m \in later : j <= m

\* json.load: the nested forest of the nodes listed with depths and labels
RECURSIVE ParseForest(_, _, _)
ParseForest(depths, labels, lvl) ==
    IF depths = <<>> THEN <<>>
    ELSE LET nxt == NextAt(depths, lvl)
             n == Len(depths)
         IN << MkNode(labels[1],
                      ParseForest(SubSeq(depths, 2, nxt - 1),
                                  SubSeq(labels, 2, nxt - 1), lvl + 1)) >>
            \o ParseForest(SubSeq(depths, nxt, n), SubSeq(labels, nxt, n), lvl)

RECURSIVE AssignIds(_, _)
AssignIds(forest, prefix) ==
    [j \in 1..Len(forest) |->
        [forest[j] EXCEPT !.nodeId = prefix \o <<j>>,
                          !.children = AssignIds(@, prefix \o <<j>>)]]

\* the forest of the given shape and labels, every node identified
Tree(depths, labels) == AssignIds(ParseForest(depths, labels, 0), <<>>)

----------------------------------------------------------------------------
(* _extract_doc_ids_with_path *)

\* a traversal that does not descend below a node flagged as a leaf
RECURSIVE traverse_leaf_pruned(_, _)
traverse_leaf_pruned(nodes, current_path) ==
    IF nodes = <<>> THEN <<>>
    ELSE
      LET node == Head(nodes)
          node_name == Get(node, "nodeName", <<>>)
          relate_doc == Get(node, "relateDocument", "")
          node_path ==
              IF current_path # <<>>
              THEN current_path \o <<"/">> \o _sanitize_filename(node_name)
              ELSE _sanitize_filename(node_name)
          appended ==
              IF node_name # <<>> /\ relate_doc # ""
              THEN << [nodeName |-> node_name,
                       relateDocument |-> relate_doc,
                       relateDocId |-> Get(node, "relateDocId", ""),
                       nodeId |-> Get(node, "nodeId", <<>>),
                       path |-> node_path,
                       isLeaf |-> Get(node, "isLeaf", TRUE)] >>
              ELSE <<>>
          children == Get(node, "children", <<>>)
          below ==
              IF children # <<>> /\ ~Get(node, "isLeaf", TRUE)
              THEN traverse_leaf_pruned(children,
                       IF node_name # <<>> THEN node_path ELSE current_path)
              ELSE <<>>
      IN appended \o below \o traverse_leaf_pruned(Tail(nodes), current_path)

\* traverse(nodes, current_path): the tasks it appends to docs, in order
RECURSIVE traverse(_, _)
traverse(nodes, current_path) ==
    IF nodes = <<>> THEN <<>>
    ELSE
      LET node == Head(nodes)
          node_name == Get(node, "nodeName", <<>>)
          relate_doc == Get(node, "relateDocument", "")
          node_path ==
              IF current_path # <<>>
              THEN current_path \o <<"/">> \o _sanitize_filename(node_name)
              ELSE _sanitize_filename(node_name)
          appended ==
              IF node_name # <<>> /\ relate_doc # ""
              THEN << [nodeName |-> node_name,
                       relateDocument |-> relate_doc,
                       relateDocId |-> Get(node, "relateDocId", ""),
                       nodeId |-> Get(node, "nodeId", <<>>),
                       path |-> node_path,
                       isLeaf |-> Get(node, "isLeaf", TRUE)] >>
              ELSE <<>>
          children == Get(node, "children", <<>>)
          below ==
              IF children # <<>>
              THEN traverse(children,
                       IF node_name # <<>> THEN node_path ELSE current_path)
              ELSE <<>>
      IN appended \o below \o traverse(Tail(nodes), current_path)

_extract_doc_ids_with_path(data) == traverse(data, <<>>)

----------------------------------------------------------------------------
(* fetch_document *)

\* a response value with every field, one anchor of which has no title
FullValue ==
    [docId |-> "d1", title |-> "T", fileName |-> "t.md",
     anchorList |-> PyList(<< [title |-> "Intro"], EmptyDict >>),
     content |-> [content |-> "<p>hi</p>"]]

\* a response value with none of the optional fields
BareValue == [docId |-> "d2"]

\* a response value whose anchor list is the JSON null
NullAnchorsValue == [docId |-> "d3", title |-> "T", anchorList |-> PyNone]

\* What requests.post, raise_for_status and response.json() can produce:
\* a transport failure (RequestException), a body that is not JSON
\* (JSONDecodeError), a JSON value that is not an object, or a JSON object.
Responses ==
    { [kind |-> "transport", body |-> EmptyDict],
      [kind |-> "unparsable", body |-> EmptyDict],
      [kind |-> "nonobject", body |-> EmptyDict],
      [kind |-> "object", body |-> [code |-> 1, message |-> "denied"]],
      [kind |-> "object", body |-> [code |-> 0, value |-> EmptyDict]],
      [kind |-> "object", body |-> [code |-> 0, value |-> FullValue]],
      [kind |-> "object", body |-> [code |-> 0, value |-> BareValue]],
      [kind |-> "object", body |-> [code |-> 0, value |-> NullAnchorsValue]] }

NoResponse == [kind |-> "none", body |-> EmptyDict]

\* fetch_document: <<d>> for a returned dict d, <<>> for None; "raise" when an
\* exception leaves the function
fetch_document(resp) ==
    IF resp.kind = "transport" THEN [ret |-> "return", doc |-> <<>>]
    ELSE IF resp.kind = "unparsable" THEN [ret |-> "return", doc |-> <<>>]
    ELSE IF resp.kind = "nonobject" THEN [ret |-> "raise", doc |-> <<>>]
    ELSE LET res == resp.body IN
         IF /\ "code" \in DOMAIN res /\ res.code = 0
            /\ "value" \in DOMAIN res /\ DOMAIN res.value # {}
         THEN LET value == res.value IN
              [ret |-> "return",
               doc |-> << [docId |-> Get(value, "docId", None),
                           title |-> Get(value, "title", None),
                           fileName |-> Get(value, "fileName", None),
                           anchorList |-> Get(value, "anchorList", PyList(<<>>)),
                           content |-> Get(value, "content", EmptyDict)] >>]
         ELSE [ret |-> "return", doc |-> <<>>]

----------------------------------------------------------------------------
(* html_to_markdown (src/html_to_markdown.py) *)

\* html2text's conversion of the bodies the model uses
Html2Text(html) == IF html = "<p>hi</p>" THEN "hi" ELSE html

\* converted is FALSE when the conversion raises and the raw body is returned
html_to_markdown(html_content, converted) ==
    IF html_content = "" THEN ""
    ELSE IF converted THEN Html2Text(html_content)
    ELSE html_content

----------------------------------------------------------------------------
(* fetch_and_save_documents: helpers *)

DOCS_DIR == <<"d", "o", "c", "s">>

\* os.path.join(DOCS_DIR, path + ".md")
FilePath(path) == DOCS_DIR \o <<"/">> \o path \o <<".", "m", "d">>

\* a scan that records the file path instead of the task path
scan_adds_file_path(tasks, files) ==
    { FilePath(tasks[k].path) :
        k \in { j \in 1..Len(tasks) : FilePath(tasks[j].path) \in files } }

\* lines 133-136: the task paths whose file exists
scan_existing(tasks, files) ==
    { tasks[k].path :
        k \in { j \in 1..Len(tasks) : FilePath(tasks[j].path) \in files } }

\* a skip test that looks at the disk when the task comes up
ShouldSkipLive(doc) == skip_existing /\ FilePath(doc.path) \in DOMAIN fs

\* a skip test that looks the file path up among the task paths
SkipByFilePath(doc) == skip_existing /\ FilePath(doc.path) \in existing_files

\* line 156
ShouldSkip(doc) == skip_existing /\ doc.path \in existing_files

\* lines 165-171: doc_info.update({...})
Merge(info, doc) ==
    [docId |-> info.docId, title |-> info.title, fileName |-> info.fileName,
     anchorList |-> info.anchorList, content |-> info.content,
     nodeName |-> doc.nodeName, relateDocument |-> doc.relateDocument,
     nodeId |-> doc.nodeId, path |-> doc.path, isLeaf |-> doc.isLeaf]

\* lines 186-191: the heading, source and file name lines
Header(info, node_name) ==
    << <<"# ", Str(Get(info, "title", "Untitled"))>>,
       <<"**source**: ", node_name>>,
       <<"**filename**: ", Str(Get(info, "fileName", "N/A"))>> >>

\* lines 194-198: the list of anchors
AnchorSection(info) ==
    IF Truthy(Get(info, "anchorList", PyList(<<>>)))
    THEN << <<"## toc">> >>
         \o [k \in 1..Len(info.anchorList.items) |->
                <<"- ", Str(Get(info.anchorList.items[k], "title", "Unknown"))>>]
    ELSE <<>>

\* lines 201-205: the converted body
ContentSection(info, converted) ==
    IF /\ DOMAIN Get(info, "content", EmptyDict) # {}
       /\ Get(info.content, "content", "") # ""
    THEN << <<"## content">>,
            <<html_to_markdown(info.content.content, converted)>> >>
    ELSE <<>>

\* lines 186-205: markdown_content
Render(info, node_name, converted) ==
    Header(info, node_name) \o AnchorSection(info)
        \o ContentSection(info, converted)

\* what can happen in lines 178-209: everything succeeds, os.makedirs raises,
\* open raises, or f.write raises after open truncated the file
WriteOutcomes == {"ok", "makedirs", "open", "write"}

\* the files after lines 178-209
WriteFile(files, file_path, text, io) ==
    IF io \in {"makedirs", "open"} THEN files
    ELSE [f \in DOMAIN files \cup {file_path} |->
            IF f = file_path THEN (IF io = "ok" THEN text ELSE <<>>)
            ELSE files[f]]

\* a counter that is incremented before the write is attempted
SavedBeforeWrite(saved, io) == saved + 1

\* line 210, reached only when nothing in the try block raised
SavedAfter(saved, io) == IF io = "ok" THEN saved + 1 ELSE saved

\* lines 246-247: len(None) and the iteration over None raise TypeError
SummaryRaises(documents_) ==
    \E k \in 1..Len(documents_) : documents_[k].anchorList.py = "None"

\* lines 239-248: the summary projection
Summary(documents_) ==
    [k \in 1..Len(documents_) |->
        [nodeName |-> documents_[k].nodeName,
         title |-> documents_[k].title,
         fileName |-> documents_[k].fileName,
         path |-> documents_[k].path,
         anchorCount |-> Len(documents_[k].anchorList.items),
         anchors |-> [a \in 1..Len(documents_[k].anchorList.items) |->
                        Get(documents_[k].anchorList.items[a], "title", None)]]]

\* an exit status that ignores the result
ExitAlwaysZero(res) == 0

\* lines 329-331 and the normal end of the script
ExitStatus(res) == IF ~res.success THEN 1 ELSE 0

Logged(ev, task, res) == Append(log, [ev |-> ev, task |-> task, res |-> res])

----------------------------------------------------------------------------
(* The run: fetch_and_save_documents called from the __main__ block *)

\* lines 109-117: read and parse the category file
LoadCategory ==
    /\ pc = "start"
    /\ IF category_file.status = "missing"
       THEN /\ result' = [success |-> FALSE, error |-> "File not found"]
            /\ pc' = "returned"
            /\ UNCHANGED category_data
       ELSE IF category_file.status = "invalid"
       THEN /\ result' = [success |-> FALSE, error |-> "Invalid JSON"]
            /\ pc' = "returned"
            /\ UNCHANGED category_data
       ELSE /\ category_data' = category_file.data
            /\ pc' = "extract"
            /\ UNCHANGED result
    /\ UNCHANGED <<sanVars, inVars, loopVars, fs, docs_dir, outputs, docs,
                   existing_files, skipped_count, exit_code, log>>

\* line 120
ExtractDocs ==
    /\ pc = "extract"
    /\ docs' = _extract_doc_ids_with_path(category_data)
    /\ pc' = "mkdir"
    /\ UNCHANGED <<sanVars, inVars, loopVars, fs, docs_dir, outputs,
                   category_data, existing_files, skipped_count, result,
                   exit_code, log>>

\* lines 124-126
MakeDocsDir ==
    /\ pc = "mkdir"
    /\ docs_dir' = (docs_dir \/ save_markdown)
    /\ pc' = "scan"
    /\ UNCHANGED <<sanVars, inVars, loopVars, fs, outputs, category_data, docs,
                   existing_files, skipped_count, result, exit_code, log>>

\* lines 129-148: the scan of the existing files and the counters' start
ScanExisting ==
    /\ pc = "scan"
    /\ IF skip_existing /\ save_markdown /\ docs_dir
       THEN /\ existing_files' = scan_existing(docs, DOMAIN fs)
            /\ skipped_count' = Cardinality(existing_files')
       ELSE /\ existing_files' = {}
            /\ skipped_count' = 0
    /\ documents' = <<>>
    /\ failed_count' = 0
    /\ saved_count' = 0
    /\ i' = 1
    /\ pc' = "loop"
    /\ UNCHANGED <<sanVars, inVars, response, doc_info, fs, docs_dir, outputs,
                   category_data, docs, result, exit_code, log>>

\* lines 156-158: the task is skipped, with no fetch and no delay
SkipTask ==
    /\ pc = "loop"
    /\ i <= Len(docs)
    /\ ShouldSkip(docs[i])
    /\ log' = Logged("skip", i, "skipped")
    /\ i' = i + 1
    /\ UNCHANGED <<sanVars, inVars, pc, documents, failed_count, saved_count,
                   response, doc_info, fs, docs_dir, outputs, category_data,
                   docs, existing_files, skipped_count, result, exit_code>>

\* lines 160-173 and 216-218: the call of fetch_document and what follows it
FetchTask ==
    /\ pc = "loop"
    /\ i <= Len(docs)
    /\ ~ShouldSkip(docs[i])
    /\ \E resp \in Responses :
         LET got == fetch_document(resp) IN
         /\ response' = resp
         /\ IF got.ret = "raise"
            THEN \* the exception leaves fetch_and_save_documents and the script
                 /\ log' = Logged("fetch", i, "raised")
                 /\ pc' = "crashed"
                 /\ exit_code' = 1
                 /\ UNCHANGED <<doc_info, documents, failed_count>>
            ELSE IF got.doc # <<>>
            THEN /\ log' = Logged("fetch", i, "ok")
                 /\ doc_info' = << Merge(got.doc[1], docs[i]) >>
                 /\ documents' = Append(documents, doc_info'[1])
                 /\ pc' = IF save_markdown THEN "save" ELSE "sleep"
                 /\ UNCHANGED <<failed_count, exit_code>>
            ELSE /\ log' = Logged("fetch", i, "failed")
                 /\ doc_info' = <<>>
                 /\ failed_count' = failed_count + 1
                 /\ pc' = "sleep"
                 /\ UNCHANGED <<documents, exit_code>>
    /\ UNCHANGED <<sanVars, inVars, saved_count, i, fs, docs_dir, outputs,
                   category_data, docs, existing_files, skipped_count, result>>

\* lines 176-213: render and write the Markdown file of the fetched document
SaveMarkdown ==
    /\ pc = "save"
    /\ \E io \in WriteOutcomes, converted \in BOOLEAN :
         LET file_path == FilePath(docs[i].path)
             markdown_content ==
                 Render(doc_info[1], docs[i].nodeName, converted)
         IN /\ fs' = WriteFile(fs, file_path, markdown_content, io)
            /\ saved_count' = SavedAfter(saved_count, io)
            /\ log' = Logged("write", i, IF io = "ok" THEN "ok" ELSE "failed")
    /\ pc' = "sleep"
    /\ UNCHANGED <<sanVars, inVars, documents, failed_count, i, response,
                   doc_info, docs_dir, outputs, category_data, docs,
                   existing_files, skipped_count, result, exit_code>>

\* line 221: time.sleep(REQUEST_DELAY), then the next task
Sleep ==
    /\ pc = "sleep"
    /\ log' = Logged("sleep", i, "slept")
    /\ i' = i + 1
    /\ response' = NoResponse
    /\ doc_info' = <<>>
    /\ pc' = "loop"
    /\ UNCHANGED <<sanVars, inVars, documents, failed_count, saved_count, fs,
                   docs_dir, outputs, category_data, docs, existing_files,
                   skipped_count, result, exit_code>>

\* lines 233-262: the two aggregate files and the returned result; when the
\* summary raises, the exception leaves the function and the script
WriteOutputs ==
    /\ pc = "loop"
    /\ i > Len(docs)
    /\ IF SummaryRaises(documents)
       THEN /\ outputs' = outputs
                  \o << [file |-> "documents.json", data |-> documents] >>
            /\ pc' = "crashed"
            /\ exit_code' = 1
            /\ UNCHANGED result
       ELSE /\ outputs' = outputs
                  \o << [file |-> "documents.json", data |-> documents],
                        [file |-> "documents_summary.json",
                         data |-> Summary(documents)] >>
            /\ result' = [success |-> TRUE, total |-> Len(docs),
                          successful |-> Len(documents),
                          failed |-> failed_count,
                          saved |-> saved_count, skipped |-> skipped_count,
                          documents |-> documents]
            /\ pc' = "returned"
            /\ UNCHANGED exit_code
    /\ UNCHANGED <<sanVars, inVars, loopVars, fs, docs_dir, category_data, docs,
                   existing_files, skipped_count, log>>

\* lines 329-343: the script exits
MainExit ==
    /\ pc = "returned"
    /\ exit_code' = ExitStatus(result)
    /\ pc' = "exited"
    /\ UNCHANGED <<sanVars, inVars, loopVars, fs, docs_dir, outputs,
                   category_data, docs, existing_files, skipped_count, result,
                   log>>

----------------------------------------------------------------------------
(* Specification of the whole run *)

RunNames == { <<"A">> }
RunRefs == { "r1" }
RunLabels == NodeLabels(RunNames, RunRefs)

OldContent == << <<"# ", "old">> >>

NoResult == [success |-> FALSE, error |-> "not returned"]

\* no earlier run of the script
NoPrev == [clean |-> FALSE, killed |-> FALSE]

\* the state of everything but the inputs before the run starts
Idle ==
    /\ pc = "start"
    /\ fs = fs0
    /\ outputs = <<>>
    /\ category_data = <<>>
    /\ docs = <<>>
    /\ existing_files = {}
    /\ skipped_count = 0
    /\ documents = <<>>
    /\ failed_count = 0
    /\ saved_count = 0
    /\ i = 1
    /\ response = NoResponse
    /\ doc_info = <<>>
    /\ result = NoResult
    /\ exit_code = -1
    /\ log = <<>>

SanIdle == filename = <<>> /\ sanitized = <<>>

Init ==
    /\ SanIdle
    /\ \/ category_file \in { [status |-> "missing", data |-> <<>>],
                              [status |-> "invalid", data |-> <<>>] }
       \/ \E n \in 0..MaxRunNodes :
            \E depths \in DepthSeqs(n), labels \in [1..n -> RunLabels] :
              category_file = [status |-> "ok", data |-> Tree(depths, labels)]
    /\ skip_existing \in BOOLEAN
    /\ save_markdown \in BOOLEAN
    /\ \E present \in SUBSET { FilePath(d.path) :
             d \in { _extract_doc_ids_with_path(category_file.data)[k] :
                     k \in 1..Len(_extract_doc_ids_with_path(category_file.data)) } } :
         fs0 = [f \in present |-> OldContent]
    /\ docs_dir \in (IF DOMAIN fs0 = {} THEN BOOLEAN ELSE {TRUE})
    /\ prev = NoPrev
    /\ Idle

Next ==
    \/ LoadCategory
    \/ ExtractDocs
    \/ MakeDocsDir
    \/ ScanExisting
    \/ SkipTask
    \/ FetchTask
    \/ SaveMarkdown
    \/ Sleep
    \/ WriteOutputs
    \/ MainExit

Spec == Init /\ [][Next]_vars

----------------------------------------------------------------------------
(* Specification of repeated runs: the script is run on the same category    *)
(* file with skip_existing enabled, a run may be terminated in its loop, and *)
(* the script is run again on the files the earlier run left.                *)

\* the run went through its whole task list and no fetch or write it
\* attempted failed
CleanRun ==
    /\ pc \in {"loop", "returned", "exited", "crashed", "killed"}
    /\ category_file.status = "ok"
    /\ i > Len(docs)
    /\ \A k \in 1..Len(log) :
         /\ log[k].ev = "fetch" => log[k].res = "ok"
         /\ log[k].ev = "write" => log[k].res = "ok"

\* lines 150-221: the process is terminated in the loop, between two
\* statements or inside f.write after open truncated the file (line 208)
Terminate ==
    /\ pc \in {"loop", "save", "sleep"}
    /\ \E at \in (IF pc = "save" THEN {"between", "writing"} ELSE {"between"}) :
         /\ fs' = IF at = "writing"
                  THEN WriteFile(fs, FilePath(docs[i].path), <<>>, "write")
                  ELSE fs
         /\ log' = Logged("kill", i, at)
    /\ pc' = "killed"
    /\ UNCHANGED <<sanVars, inVars, loopVars, docs_dir, outputs, category_data,
                   docs, existing_files, skipped_count, result, exit_code>>

\* lines 313-327: the script is started again after the earlier run ended
Rerun ==
    /\ pc \in {"exited", "killed", "crashed"}
    /\ prev' = [clean |-> CleanRun,
                killed |-> prev.killed \/ (pc = "killed" /\ i <= Len(docs))]
    /\ fs0' = fs
    /\ pc' = "start"
    /\ outputs' = <<>>
    /\ category_data' = <<>>
    /\ docs' = <<>>
    /\ existing_files' = {}
    /\ skipped_count' = 0
    /\ documents' = <<>>
    /\ failed_count' = 0
    /\ saved_count' = 0
    /\ i' = 1
    /\ response' = NoResponse
    /\ doc_info' = <<>>
    /\ result' = NoResult
    /\ exit_code' = -1
    /\ log' = <<>>
    /\ UNCHANGED <<sanVars, category_file, skip_existing, save_markdown, fs,
                   docs_dir>>

InitResume ==
    /\ Init
    /\ category_file.status = "ok"
    /\ skip_existing

NextResume ==
    \/ Next
    \/ Terminate
    \/ Rerun

SpecResume == InitResume /\ [][NextResume]_vars

----------------------------------------------------------------------------
(* Specification of _sanitize_filename alone: it is applied to a file name   *)
(* and then to its own result.                                              *)

SanChars == IllegalChars \cup Whitespace \cup {"a", "_"}

SeqsUpTo(S, n) == UNION { [1..k -> S] : k \in 0..n }

\* the run's variables while only a pure function is exercised
RunUnused ==
    /\ category_file = [status |-> "ok", data |-> <<>>]
    /\ skip_existing = TRUE
    /\ save_markdown = TRUE
    /\ fs0 = <<>>
    /\ docs_dir = TRUE
    /\ prev = NoPrev
    /\ Idle

InitSanitize ==
    /\ filename \in SeqsUpTo(SanChars, MaxNameLen)
    /\ sanitized = <<>>
    /\ RunUnused

Sanitize ==
    /\ Len(sanitized) < 2
    /\ sanitized' = Append(sanitized,
           _sanitize_filename(IF sanitized = <<>> THEN filename
                             ELSE sanitized[Len(sanitized)]))
    /\ UNCHANGED <<filename, inVars, loopVars, pc, fs, docs_dir, outputs,
                   category_data, docs, existing_files, skipped_count, result,
                   exit_code, log>>

NextSanitize == Sanitize

SpecSanitize == InitSanitize /\ [][NextSanitize]_vars

----------------------------------------------------------------------------
(* Specification of _extract_doc_ids_with_path over all small trees *)

\* an empty name, a plain name, and a name that sanitizes to the empty string
TreeNames == { <<>>, <<"A">>, <<"?">> }
TreeRefs == { "", "r1" }
TreeLabels == NodeLabels(TreeNames, TreeRefs)

InitTree ==
    /\ SanIdle
    /\ \E n \in 0..MaxNodes :
         \E depths \in DepthSeqs(n), labels \in [1..n -> TreeLabels] :
           category_file = [status |-> "ok", data |-> Tree(depths, labels)]
    /\ skip_existing = TRUE
    /\ save_markdown = TRUE
    /\ fs0 = <<>>
    /\ docs_dir = TRUE
    /\ prev = NoPrev
    /\ Idle

NextTree ==
    \/ LoadCategory
    \/ ExtractDocs

SpecTree == InitTree /\ [][NextTree]_vars

----------------------------------------------------------------------------
(* Vocabulary of the properties *)

Finished == pc \in {"returned", "exited"}

IsFetch(e) == e.ev = "fetch"
IsFailedFetch(e) == e.ev = "fetch" /\ e.res # "ok"
IsSkip(e) == e.ev = "skip"
IsSleep(e) == e.ev = "sleep"
IsWriteOk(e) == e.ev = "write" /\ e.res = "ok"
IsWriteFailed(e) == e.ev = "write" /\ e.res = "failed"

\* the log entries of task t
EntriesOf(t) == { k \in 1..Len(log) : log[k].task = t }

FetchedTasks == { log[k].task : k \in { j \in 1..Len(log) : IsFetch(log[j]) } }
WrittenTasks == { log[k].task : k \in { j \in 1..Len(log) : log[j].ev = "write" } }

\* the nodes of a forest, by position
RECURSIVE PositionsOf(_, _)
PositionsOf(forest, prefix) ==
    UNION { {prefix \o <<j>>} \cup PositionsOf(forest[j].children, prefix \o <<j>>) :
            j \in 1..Len(forest) }

RECURSIVE NodeAt(_, _)
NodeAt(forest, pos) ==
    IF Len(pos) = 1 THEN forest[pos[1]]
    ELSE NodeAt(forest[pos[1]].children, Tail(pos))

\* position p is visited before position q by a pre-order depth-first walk:
\* p is an ancestor of q, or p branches off to the left of q
PreorderBefore(p, q) ==
    \/ Len(p) < Len(q) /\ SubSeq(q, 1, Len(p)) = p
    \/ \E k \in 1..Len(p) :
         /\ k <= Len(q)
         /\ p[k] < q[k]
         /\ \A j \in 1..(k - 1) : p[j] = q[j]

\* the nodes that have both a name and a document reference
Eligible(forest) ==
    { p \in PositionsOf(forest, <<>>) :
        NodeAt(forest, p).nodeName # <<>> /\ NodeAt(forest, p).relateDocument # "" }

\* a path with no leading, trailing or doubled separator
NoEmptySegment(path) ==
    /\ path # <<>> => (Head(path) # "/" /\ path[Len(path)] # "/")
    /\ \A k \in 1..(Len(path) - 1) : ~(path[k] = "/" /\ path[k + 1] = "/")

Extracted == pc \notin {"start", "extract"} /\ category_file.status = "ok"

----------------------------------------------------------------------------
(* C4, C5: the tree walk (SpecTree) *)

\* C4: the walk emits exactly one task per node that has both a non-empty
\* name and a non-empty document reference, in pre-order; a node without a
\* reference is not emitted but its children are, whatever the leaf flags.
C4_FlattenEmitsEligibleInPreorder ==
    Extracted =>
      /\ Len(docs) = Cardinality(Eligible(category_data))
      /\ { docs[k].nodeId : k \in 1..Len(docs) } = Eligible(category_data)
      /\ \A k \in 1..Len(docs) :
           /\ docs[k].nodeName = NodeAt(category_data, docs[k].nodeId).nodeName
           /\ docs[k].relateDocument =
                NodeAt(category_data, docs[k].nodeId).relateDocument
      /\ \A k, l \in 1..Len(docs) :
           k < l => PreorderBefore(docs[k].nodeId, docs[l].nodeId)

\* a task two levels down, under a leaf-flagged node without a reference,
\* after a task of an earlier root
C4_Witness ==
    /\ Extracted
    /\ Len(docs) >= 2
    /\ \E k \in 2..Len(docs) :
         /\ Len(docs[k].nodeId) = 2
         /\ docs[k].nodeId[1] = 2
         /\ LET parent == NodeAt(category_data, <<2>>)
            IN parent.relateDocument = "" /\ parent.isLeaf

\* C5: no derived path of an emitted task has an empty segment, also below
\* a node whose non-empty name sanitizes to the empty string.
C5_NoEmptyPathSegment ==
    Extracted => \A k \in 1..Len(docs) : NoEmptySegment(docs[k].path)

----------------------------------------------------------------------------
(* C6: the sanitizer (SpecSanitize) *)

\* C6: sanitizing a sanitized name changes nothing, and a sanitized name has
\* no illegal character and no whitespace.
C6_SanitizeIdempotentAndClean ==
    /\ Len(sanitized) >= 1 =>
         \A k \in 1..Len(sanitized[1]) :
           sanitized[1][k] \notin IllegalChars \cup Whitespace
    /\ Len(sanitized) = 2 => sanitized[2] = sanitized[1]

\* a name with an illegal character and inner whitespace, sanitized twice
C6_Witness ==
    /\ Len(sanitized) = 2
    /\ Len(filename) = 3
    /\ filename[1] \in IllegalChars
    /\ filename[2] \in Whitespace
    /\ filename[3] = "a"
    /\ sanitized[1] = <<"_", "a">>

----------------------------------------------------------------------------
(* C1-C3, C7-C10: the run (Spec) *)

\* C1: a failed fetch never aborts the run: the run does not end at the
\* failed task, no file is written for it, every later task is processed,
\* and the returned failed count is the number of failed fetches.
C1_FailedFetchNeverAborts ==
    /\ \A k \in 1..Len(log) :
         IsFailedFetch(log[k]) =>
           /\ ~(pc = "crashed" /\ i = log[k].task)
           /\ log[k].task \notin WrittenTasks
           /\ Finished =>
                \A t \in (log[k].task + 1)..Len(docs) : EntriesOf(t) # {}
    /\ (Finished /\ result.success) =>
         result.failed = Count(log, IsFailedFetch)

\* task k had its output file when the run started, and the run neither
\* fetched it, nor touched its file, nor listed it as fetched
LeftAlone(k) ==
    LET file_path == FilePath(docs[k].path) IN
    file_path \in DOMAIN fs0 =>
      /\ k \notin FetchedTasks
      /\ k \notin WrittenTasks
      /\ file_path \in DOMAIN fs /\ fs[file_path] = fs0[file_path]
      /\ \A d \in 1..Len(documents) : documents[d].nodeId # docs[k].nodeId

\* C2 as stated: with skip-existing enabled, a task whose output file
\* existed when the run started is not fetched, its file is not written and
\* it is not added to the fetched documents.
C2_SkipExistingLeavesAlone ==
    skip_existing => \A k \in 1..Len(docs) : LeftAlone(k)

\* C2 amended: the same, when skip-existing and save-markdown are both
\* enabled.
C2_SkipExistingWhenSaving ==
    (skip_existing /\ save_markdown) => \A k \in 1..Len(docs) : LeftAlone(k)

\* a finished run that skipped its first task, whose file existed, and
\* fetched and wrote the second
C2_Witness ==
    /\ pc = "exited"
    /\ skip_existing /\ save_markdown
    /\ Len(docs) = 2
    /\ FilePath(docs[1].path) \in DOMAIN fs0
    /\ 1 \notin FetchedTasks
    /\ \E k \in 1..Len(log) : IsWriteOk(log[k]) /\ log[k].task = 2

\* C3: the returned skipped count is the number of tasks that were skipped.
C3_SkippedCountIsSkippedTasks ==
    (Finished /\ result.success) => result.skipped = Count(log, IsSkip)

\* C7: a failure to create the directories or to write the file is caught at
\* its task: the delay and the next task follow, and the saved count is the
\* number of files written successfully.
C7_WriteFailureCaught ==
    /\ pc \notin {"start", "extract", "mkdir", "scan"} =>
         saved_count = Count(log, IsWriteOk)
    /\ (Finished /\ result.success) => result.saved = Count(log, IsWriteOk)
    /\ \A k \in 1..Len(log) :
         IsWriteFailed(log[k]) =>
           /\ k = Len(log) => (pc = "sleep" /\ i = log[k].task)
           /\ k < Len(log) => (IsSleep(log[k + 1]) /\ i > log[k].task)
           /\ k + 1 < Len(log) => log[k + 2].task = log[k].task + 1
           /\ (pc = "loop" /\ k + 1 = Len(log)) => ENABLED Next

\* a finished run whose first write failed and whose second succeeded
C7_Witness ==
    /\ pc = "exited"
    /\ result.success
    /\ result.saved = 1
    /\ \E k \in 1..Len(log) : IsWriteFailed(log[k]) /\ log[k].task = 1
    /\ \E k \in 1..Len(log) : IsWriteOk(log[k]) /\ log[k].task = 2

\* C8: one delay after each task that made a fetch call, none for a skipped
\* task: between tasks and at the end of the run the delays are as many as
\* the fetch calls, and a delay lies between any two fetch calls.
C8_OneDelayPerFetch ==
    /\ pc \in {"loop", "returned", "exited", "crashed"} =>
         Count(log, IsSleep) = Count(log, IsFetch)
    /\ \A k \in 1..Len(log) :
         IsSleep(log[k]) => log[k].task \in FetchedTasks
    /\ \A k, l \in 1..Len(log) :
         (k < l /\ IsFetch(log[k]) /\ IsFetch(log[l])) =>
           \E m \in (k + 1)..(l - 1) : IsSleep(log[m])

\* C9: a missing or invalid category file is fatal: no fetch, no Markdown
\* file, no aggregate file, a failure result and a non-zero exit status.
C9_BadIndexIsFatal ==
    category_file.status # "ok" =>
      /\ log = <<>>
      /\ fs = fs0
      /\ outputs = <<>>
      /\ pc \in {"start", "returned", "exited"}
      /\ pc # "start" => ~result.success
      /\ pc = "exited" => exit_code # 0

C9_Witness ==
    /\ category_file.status = "invalid"
    /\ pc = "exited"
    /\ exit_code = 1

\* the file just written for the current task
JustWritten ==
    /\ pc = "sleep"
    /\ log # <<>>
    /\ IsWriteOk(log[Len(log)])

\* C10: the file rendered from a fetched document starts with the title, or
\* with "Untitled" when the response has no title; an anchor without a title
\* is listed as "Unknown"; without a body there is no content section.
C10_RenderFallbacks ==
    JustWritten =>
      LET value == response.body.value
          text == fs[FilePath(docs[i].path)]
          anchors == Get(value, "anchorList", PyList(<<>>)).items
      IN /\ text[1] = <<"# ", Get(value, "title", "Untitled")>>
         /\ \A a \in 1..Len(anchors) :
              text[4 + a] = <<"- ", Get(anchors[a], "title", "Unknown")>>
         /\ "content" \notin DOMAIN value =>
              \A n \in 1..Len(text) : text[n] # <<"## content">>

----------------------------------------------------------------------------
(* C11: tasks that share a derived path (Spec) *)

AfterScan == pc \in {"loop", "save", "sleep", "returned", "exited", "crashed"}

\* the tasks whose derived path is that of task k
SamePath(k) == { t \in 1..Len(docs) : docs[t].path = docs[k].path }

\* the tasks of a set with a write entry in the log, successful or any
OkWritten(tasks) ==
    { t \in tasks : \E k \in 1..Len(log) : IsWriteOk(log[k]) /\ log[k].task = t }
Attempted(tasks) == tasks \cap WrittenTasks

Last(tasks) == CHOOSE t \in tasks : \A u \in tasks : u <= t

\* what the file of task t can hold after its document was written
Renderings(t) ==
    { Render(documents[d], docs[t].nodeName, converted) :
        d \in { e \in 1..Len(documents) : documents[e].nodeId = docs[t].nodeId },
        converted \in BOOLEAN }

\* the existing-paths set is what the scan found before the loop, and a task
\* is skipped only for a file that was there when the run started
ScannedOnce ==
    /\ AfterScan =>
         existing_files =
           IF skip_existing /\ save_markdown
           THEN scan_existing(docs, DOMAIN fs0) ELSE {}
    /\ \A k \in 1..Len(log) :
         IsSkip(log[k]) => FilePath(docs[log[k].task].path) \in DOMAIN fs0

\* tasks k < l share a path whose file did not exist before the run
Collide(k, l) ==
    /\ k < l
    /\ docs[k].path = docs[l].path
    /\ FilePath(docs[k].path) \notin DOMAIN fs0

IsVisit(e) == IsSkip(e) \/ IsFetch(e)

Visits == SelectSeq(log, IsVisit)

NoRaiseInLoop == \A k \in 1..Len(log) : IsFetch(log[k]) => log[k].res # "raised"

OutputFiles == [k \in 1..Len(outputs) |-> outputs[k].file]

\* C13: when nothing raises out of the loop, the tasks are visited once each
\* in flatten order with at most one fetch call per task, the aggregate files
\* are written only after the last task, and a run that has ended has written
\* both of them, each once.
C13_VisitsOnceThenWritesOutputs ==
    (category_file.status = "ok" /\ NoRaiseInLoop) =>
      /\ Len(Visits) <= Len(docs)
      /\ \A k \in 1..Len(Visits) : Visits[k].task = k
      /\ outputs # <<>> => (i > Len(docs) /\ Len(Visits) = Len(docs))
      /\ pc \in {"returned", "exited", "crashed"} =>
           OutputFiles = <<"documents.json", "documents_summary.json">>

\* C14: the counts of a completed run partition the tasks: the total is the
\* sum of the successful, failed and skipped counts, and no more documents are
\* saved than were fetched successfully.
C14_CountsPartitionTasks ==
    (Finished /\ result.success) =>
      /\ result.total = result.successful + result.failed + result.skipped
      /\ result.saved <= result.successful

\* the task list of the category file, the same in every run
Tasks == _extract_doc_ids_with_path(category_file.data)

\* the tasks that touched the file of task t after t: a later task of the
\* same path that attempted a write or was being written when the run ended
TouchedAfter(t) ==
    { u \in SamePath(t) :
        /\ u > t
        /\ \E k \in 1..Len(log) :
             /\ log[k].task = u
             /\ log[k].ev = "write" \/ (log[k].ev = "kill" /\ log[k].res = "writing") }

\* the files that existed when the run started are as they were, and a file
\* written by this run holds what was written
WrittenFilesIntact ==
    /\ \A f \in DOMAIN fs0 : f \in DOMAIN fs /\ fs[f] = fs0[f]
    /\ \A t \in OkWritten(1..Len(docs)) :
         TouchedAfter(t) = {} =>
           /\ FilePath(docs[t].path) \in DOMAIN fs
           /\ fs[FilePath(docs[t].path)] \in Renderings(t)

\* after a clean run every task has a file, and the run that follows a clean
\* run fetches nothing and leaves the files as they are
Converged ==
    /\ CleanRun => \A t \in 1..Len(docs) : FilePath(docs[t].path) \in DOMAIN fs
    /\ prev.clean =>
         /\ \A t \in 1..Len(Tasks) : FilePath(Tasks[t].path) \in DOMAIN fs0
         /\ FetchedTasks = {}
         /\ fs = fs0

====
